---- MODULE Spec2Model ----
(***************************************************************************)
(* git-perf: performance measurements stored in git notes                  *)
(* (src/src/git_perf/git_perf.py) and the offline evaluation of the two    *)
(* dispersion estimators (src/evaluate_dispersion_methods.py).             *)
(*                                                                         *)
(* Part 1 models the measurement log and its synchronisation: every        *)
(* repository (one per writer) has a local refs/notes/perf, the remote has *)
(* one too.  A value of the ref is a notes commit: the annotation of each  *)
(* annotated commit plus the ancestry of the notes commit.  The git        *)
(* commands the program runs are modelled by what git does with them:      *)
(*   git notes append        a new notes commit on top of the local ref    *)
(*   git push origin REF     accepted iff fast-forward, else rejected      *)
(*   git fetch origin REF    FETCH_HEAD := remote ref, fails without one   *)
(*   git notes merge -s cat_sort_uniq FETCH_HEAD                           *)
(*                           already merged / fast-forward / three-way     *)
(*                           merge per annotated commit, conflicts solved  *)
(*                           by concatenating, sorting and deduplicating   *)
(*                           the lines of both sides.                      *)
(* A record line is an opaque text; lines are numbered in their sort       *)
(* order.  Blank separator lines are left out: get_df skips them.          *)
(*                                                                         *)
(* Part 2 models one repository as audit sees it: the first-parent history *)
(* with the parsed records of each commit, and the accept-perf trailers of *)
(* every commit (its own and, for a merge, those of the commits it merged).*)
(* audit is a function of that state and of its                            *)
(* arguments; the pandas operations are modelled by what they compute      *)
(* (expand_kvs: pivot of the key=value tokens, filter_df: column test and  *)
(* row selection, summarize: groupby / agg / mean / std with NaN group     *)
(* keys dropped).  Values are integers and the statistics are exact        *)
(* rationals compared by cross-multiplication: rounding of float64 is not  *)
(* modelled.                                                               *)
(*                                                                         *)
(* Part 3 applies single functions of the program to inputs drawn from     *)
(* bounded sets: one call is made, with its arguments kept in callIn and   *)
(* what it returned or raised in callOut.                                  *)
(***************************************************************************)
EXTENDS Integers, Sequences, FiniteSets, TLC

\* ---------------------------------------------------------------- bounds
NumWriters == 2
NumCommits == 2
MaxLine == 2
MaxAdds == 3
MaxHistory == 3
MaxRecords == 3
MaxVal == 2
MaxTrailers == 1
MaxSigma == 1
MaxRows == 2
MaxLogLines == 3
MaxObjects == 3
MaxBase == 9
MaxOutliers == 1
MaxTokens == 2
MaxPending == 1

\* ------------------------------------------------------ program constants
MAX_PUSHES == 3

Writers == 1..NumWriters
Commits == 1..NumCommits
Lines == 1..MaxLine
NoRef == <<0, 0>>

VARIABLES
  store,      \* the notes commits created so far: id -> [notes, anc]; the
              \* id <<w, k>> names the k-th notes commit made in w's repository
  remote,     \* refs/notes/perf of origin: an id of store, or NoRef
  denied,     \* the writers whose pushes origin refuses (no write access)
  localRef,   \* refs/notes/perf of each writer's repository
  fetchHead,  \* FETCH_HEAD of each writer's repository
  pc,         \* position of each writer: "idle" before its push, "loop" and
              \* "pull" inside push, "done" after its push
  counter,    \* the local variable counter of push()
  outcome,    \* what the caller of the writer's push got: "none" (push not
              \* ended), "returned" (normal return), "raised" (exception)
  adds,       \* history: the <<commit, line>> pairs each writer appended
  attempts,   \* history: push_to_origin calls of the writer's push
  pulls,      \* history: pull calls of the writer's push
  lastStep,   \* history: last step of the writer's push: "none", "accepted",
              \* "rejected" (push attempts) or "pull"
  synced,     \* history: the writer pulled after every push had returned
  history,    \* the commits of the first-parent history, HEAD first; each
              \* is the sequence of records [name, val, kvs] in its note
  trailers,   \* per commit, HEAD first: its accept-perf trailers [name, kvs]
  auditIn,    \* the arguments of the audit that ran, or NoAudit
  auditOut,   \* its outcome [stage, exit, ...], or NoAudit
  callIn,     \* the function called and its arguments, or NoCall
  callOut     \* what the call returned or raised, or NoCall

syncVars == <<store, remote, denied, localRef, fetchHead, pc, counter,
              outcome, adds, attempts, pulls, lastStep, synced>>

auditVars == <<history, trailers, auditIn, auditOut>>

callVars == <<callIn, callOut>>

\* ------------------------------------------------------------ git helpers
Range(s) == {s[i] : i \in 1..Len(s)}

SetMin(S) == CHOOSE x \in S : \A y \in S : x <= y

SetMax(S) == CHOOSE x \in S : \A y \in S : y <= x

RECURSIVE SortedSeq(_)
SortedSeq(S) ==
  IF S = {} THEN <<>>
  ELSE LET m == SetMin(S) IN <<m>> \o SortedSeq(S \ {m})

EmptyNotes == [c \in Commits |-> <<>>]

NotesOf(st, ref) == IF ref = NoRef THEN EmptyNotes ELSE st[ref].notes

AncOf(st, ref) == IF ref = NoRef THEN {} ELSE st[ref].anc

\* git merge-base of two notes commits (NoRef: unrelated histories): a
\* common ancestor that is no ancestor of another common ancestor.
MergeBase(st, l, r) ==
  LET common == AncOf(st, l) \cap AncOf(st, r)
      best == {c \in common : \A d \in common : c \in st[d].anc => d = c}
  IN IF common = {} THEN NoRef ELSE CHOOSE c \in best : TRUE

\* the id of the next notes commit made in w's repository
NewId(st, w) == <<w, Cardinality({i \in DOMAIN st : i[1] = w}) + 1>>

\* mutant: the strategy keeps the remote version only ("theirs")
CatSortUniqTheirs(mine, theirs) == theirs

\* mutant: the strategy concatenates without deduplicating ("union")
CatSortUniqConcat(mine, theirs) == mine \o theirs

\* The merge strategy named by reconcile(): lines of both versions,
\* concatenated, sorted, duplicates removed.
CatSortUniq(mine, theirs) == SortedSeq(Range(mine) \cup Range(theirs))

\* git notes merge, for the annotation of one commit.
MergeNote(base, mine, theirs) ==
  IF theirs = base THEN mine
  ELSE IF mine = theirs THEN mine
  ELSE IF mine = <<>> \/ mine = base THEN theirs
  ELSE CatSortUniq(mine, theirs)

\* reconcile(): git notes merge -s cat_sort_uniq FETCH_HEAD, as a function
\* of the object store, the repository w, its local ref l and FETCH_HEAD r
\* (r # NoRef).
Reconcile(st, w, l, r) ==
  LET b == MergeBase(st, l, r)
      n == NewId(st, w)
  IN IF l = NoRef THEN [store |-> st, ref |-> r]
     ELSE IF b = r THEN [store |-> st, ref |-> l]
     ELSE IF b = l THEN [store |-> st, ref |-> r]
     ELSE [store |-> st @@ (n :>
              [notes |-> [c \in Commits |->
                            MergeNote(NotesOf(st, b)[c], NotesOf(st, l)[c],
                                      NotesOf(st, r)[c])],
               anc |-> AncOf(st, l) \cup AncOf(st, r) \cup {n}]),
           ref |-> n]

\* mutant: a forced push, accepted whatever the remote ref is
FastForwardForced(st, l, r) == l # NoRef

\* git push origin refs/notes/perf is accepted iff the local ref exists and
\* the update of the remote ref is a fast-forward.
FastForward(st, l, r) == l # NoRef /\ (r = NoRef \/ r \in AncOf(st, l))

\* mutant: the loop runs once more
MayAttemptOffByOne(c) == c <= MAX_PUSHES

\* the loop condition of push(), before push_to_origin is called
MayAttempt(c) == c < MAX_PUSHES

\* ------------------------------------------------------------------ Init
SyncIdle ==
  /\ store = <<>>
  /\ remote = NoRef
  /\ localRef = [w \in Writers |-> NoRef]
  /\ fetchHead = [w \in Writers |-> NoRef]
  /\ pc = [w \in Writers |-> "idle"]
  /\ counter = [w \in Writers |-> 0]
  /\ outcome = [w \in Writers |-> "none"]
  /\ adds = [w \in Writers |-> <<>>]
  /\ attempts = [w \in Writers |-> 0]
  /\ pulls = [w \in Writers |-> 0]
  /\ lastStep = [w \in Writers |-> "none"]
  /\ synced = [w \in Writers |-> FALSE]

SyncInit == SyncIdle /\ denied \in SUBSET Writers

\* --------------------------------------------------------------- actions
RECURSIVE SumLen(_, _)
SumLen(f, S) ==
  IF S = {} THEN 0
  ELSE LET x == CHOOSE y \in S : TRUE IN Len(f[x]) + SumLen(f, S \ {x})

\* the number of add() calls of all writers so far
TotalAdds == SumLen(adds, Writers)

\* git notes append -m <line>: the note with the line added at its end
NotesAppendOverwrites(note, l) == <<l>>

NotesAppend(note, l) == Append(note, l)

\* add(): git notes append -m <line> on the writer's current commit c.
Add(w, c, l) ==
  /\ pc[w] = "idle"
  /\ TotalAdds < MaxAdds
  /\ LET n == NewId(store, w)
         old == NotesOf(store, localRef[w])
     IN /\ store' = store @@ (n :>
                      [notes |-> [old EXCEPT ![c] = NotesAppend(@, l)],
                       anc |-> AncOf(store, localRef[w]) \cup {n}])
        /\ localRef' = [localRef EXCEPT ![w] = n]
  /\ adds' = [adds EXCEPT ![w] = Append(@, <<c, l>>)]
  /\ UNCHANGED <<remote, denied, fetchHead, pc, counter, outcome, attempts,
                 pulls, lastStep, synced>>
  /\ UNCHANGED auditVars
  /\ UNCHANGED callVars

\* push(): counter = 0, enter the loop.
StartPush(w) ==
  /\ pc[w] = "idle"
  /\ pc' = [pc EXCEPT ![w] = "loop"]
  /\ counter' = [counter EXCEPT ![w] = 0]
  /\ UNCHANGED <<store, remote, denied, localRef, fetchHead, outcome, adds,
                 attempts, pulls, lastStep, synced>>
  /\ UNCHANGED auditVars
  /\ UNCHANGED callVars

\* push(): the loop condition fails on the counter; push returns normally.
PushGiveUp(w) ==
  /\ pc[w] = "loop"
  /\ ~MayAttempt(counter[w])
  /\ pc' = [pc EXCEPT ![w] = "done"]
  /\ outcome' = [outcome EXCEPT ![w] = "returned"]
  /\ UNCHANGED <<store, remote, denied, localRef, fetchHead, counter, adds,
                 attempts, pulls, lastStep, synced>>
  /\ UNCHANGED auditVars
  /\ UNCHANGED callVars

\* push(): push_to_origin() returns 0, the loop ends, push returns.
PushAccepted(w) ==
  /\ pc[w] = "loop"
  /\ MayAttempt(counter[w])
  /\ w \notin denied
  /\ FastForward(store, localRef[w], remote)
  /\ remote' = localRef[w]
  /\ pc' = [pc EXCEPT ![w] = "done"]
  /\ outcome' = [outcome EXCEPT ![w] = "returned"]
  /\ attempts' = [attempts EXCEPT ![w] = @ + 1]
  /\ lastStep' = [lastStep EXCEPT ![w] = "accepted"]
  /\ UNCHANGED <<store, denied, localRef, fetchHead, counter, adds,
                 pulls, synced>>
  /\ UNCHANGED auditVars
  /\ UNCHANGED callVars

\* push(): push_to_origin() returns non-zero: the update is no fast-forward
\* (or there is no local ref to push), or origin refuses the writer.  The
\* loop body calls pull().
PushRejected(w) ==
  /\ pc[w] = "loop"
  /\ MayAttempt(counter[w])
  /\ w \in denied \/ ~FastForward(store, localRef[w], remote)
  /\ pc' = [pc EXCEPT ![w] = "pull"]
  /\ attempts' = [attempts EXCEPT ![w] = @ + 1]
  /\ lastStep' = [lastStep EXCEPT ![w] = "rejected"]
  /\ UNCHANGED <<store, remote, denied, localRef, fetchHead, counter, outcome,
                 adds, pulls, synced>>
  /\ UNCHANGED auditVars
  /\ UNCHANGED callVars

\* pull() called by push(): fetch() sets FETCH_HEAD to the remote ref,
\* reconcile() merges it into the local ref; back in push, counter += 1.
\* reconcile() reads and writes the writer's own repository only, so the
\* two calls are one step.
PullInPush(w) ==
  /\ pc[w] = "pull"
  /\ remote # NoRef
  /\ LET res == Reconcile(store, w, localRef[w], remote)
     IN /\ store' = res.store
        /\ localRef' = [localRef EXCEPT ![w] = res.ref]
  /\ fetchHead' = [fetchHead EXCEPT ![w] = remote]
  /\ counter' = [counter EXCEPT ![w] = @ + 1]
  /\ pulls' = [pulls EXCEPT ![w] = @ + 1]
  /\ lastStep' = [lastStep EXCEPT ![w] = "pull"]
  /\ pc' = [pc EXCEPT ![w] = "loop"]
  /\ UNCHANGED <<remote, denied, outcome, adds, attempts, synced>>
  /\ UNCHANGED auditVars
  /\ UNCHANGED callVars

\* pull() called by push(): fetch()'s check_call raises CalledProcessError
\* when origin has no refs/notes/perf; the exception leaves pull() and push().
PullInPushFails(w) ==
  /\ pc[w] = "pull"
  /\ remote = NoRef
  /\ pulls' = [pulls EXCEPT ![w] = @ + 1]
  /\ lastStep' = [lastStep EXCEPT ![w] = "pull"]
  /\ outcome' = [outcome EXCEPT ![w] = "raised"]
  /\ pc' = [pc EXCEPT ![w] = "done"]
  /\ UNCHANGED <<store, remote, denied, localRef, fetchHead, counter, adds,
                 attempts, synced>>
  /\ UNCHANGED auditVars
  /\ UNCHANGED callVars

\* the pull subcommand, run on its own after the writer's push (when origin
\* has no refs/notes/perf, fetch() raises and nothing changes)
Pull(w) ==
  /\ pc[w] = "done"
  /\ remote # NoRef
  /\ LET res == Reconcile(store, w, localRef[w], remote)
     IN /\ store' = res.store
        /\ localRef' = [localRef EXCEPT ![w] = res.ref]
  /\ fetchHead' = [fetchHead EXCEPT ![w] = remote]
  /\ synced' = [synced EXCEPT ![w] = \A v \in Writers : pc[v] = "done"]
  /\ UNCHANGED <<remote, denied, pc, counter, outcome, adds, attempts, pulls,
                 lastStep>>
  /\ UNCHANGED auditVars
  /\ UNCHANGED callVars

SyncNext ==
  \E w \in Writers :
    \/ \E c \in Commits, l \in Lines : Add(w, c, l)
    \/ StartPush(w)
    \/ PushGiveUp(w)
    \/ PushAccepted(w)
    \/ PushRejected(w)
    \/ PullInPush(w)
    \/ PullInPushFails(w)
    \/ Pull(w)

\* ================================================================= Part 2
\* ------------------------------------------------------ program constants
DEFAULT_MAX_COUNT == 40

\* ------------------------------------------------------------ input domains
\* the measurement audited, and another measurement recorded beside it
Measurement == "m"

OtherMeasurement == "n"

OsValues == {"a", "b"}

\* one key=value token as keyvalue() returns it
KeyValue(k, v) == [key |-> k, value |-> v]

\* the --key-value lists: none, or one value of the tag os
KvLists == {<<>>} \cup {<<KeyValue("os", v)>> : v \in OsValues}

\* the records add() writes: name, value and tags (the timestamp plays no
\* role in audit and is left out)
Records ==
  [name : {Measurement}, val : 1..MaxVal, kvs : KvLists]
    \cup [name : {OtherMeasurement}, val : {1}, kvs : {<<>>}]

\* the trailers good() writes
Trailers ==
  [name : {Measurement}, kvs : KvLists]
    \cup [name : {OtherMeasurement}, kvs : {<<>>}]

\* the --selector lists: none, or one value of the tag os
Selectors == {<<>>, <<KeyValue("os", "a")>>}

\* the largest finite float, the value nan_to_num gives to +inf; it stands
\* above every finite score the model can produce
FloatMax == 1000000

\* the --sigma values: small thresholds, and the largest finite float
Sigmas == 0..MaxSigma \cup {FloatMax}

AuditArgs ==
  [measurement : {Measurement}, max_count : {DEFAULT_MAX_COUNT},
   group_by : {"commit", "os"}, aggregate_by : {"min", "max"},
   selector : Selectors, sigma : Sigmas]

\* the defaults of the audit parser, with selector [] and sigma 0
DefaultArgs ==
  [measurement |-> Measurement, max_count |-> DEFAULT_MAX_COUNT,
   group_by |-> "commit", aggregate_by |-> "min", selector |-> <<>>,
   sigma |-> 0]

NoAudit == [stage |-> "none", exit |-> 0]

\* -------------------------------------------------------------- data frames
\* A data frame is [cols, rows]: the set of column names and the sequence
\* of rows; a row keeps its tokens in kvs, and its cell in a tag column is
\* the value of the last token with that key (NaN: no such token).
Min(a, b) == IF a <= b THEN a ELSE b

RECURSIVE RowsFrom(_, _)
RowsFrom(commits, i) ==
  IF i > Len(commits) THEN <<>>
  ELSE [j \in 1..Len(commits[i]) |->
          [commit |-> i, name |-> commits[i][j].name,
           val |-> commits[i][j].val, kvs |-> commits[i][j].kvs]]
       \o RowsFrom(commits, i + 1)

\* the tag keys that occur in the rows
Keys(rows) ==
  UNION {{rows[i].kvs[j].key : j \in 1..Len(rows[i].kvs)} : i \in 1..Len(rows)}

\* expand_kvs: the kvs column is replaced by one column per key, unless no
\* row has a token; a frame without rows has no columns at all
ExpandKvs(cols, rows) ==
  [cols |-> IF rows = <<>> THEN {}
            ELSE IF Keys(rows) = {} THEN cols \cup {"kvs"}
            ELSE cols \cup Keys(rows),
   rows |-> rows]

\* get_df: the records of the first max_count commits, HEAD is commit 1
GetDf(hist, max_count) ==
  ExpandKvs({"commit", "nr_commit", "name", "time", "val"},
            RowsFrom(SubSeq(hist, 1, Min(max_count, Len(hist))), 1))

\* get_raw_pending_trailers: git log HEAD^.. lists nothing when HEAD has no
\* parent (--ignore-missing drops the range)
\* the trailers of all commits in trl, HEAD first
RECURSIVE AllTrailers(_)
AllTrailers(trl) ==
  IF trl = <<>> THEN <<>>
  ELSE Head(trl).own \o Head(trl).side \o AllTrailers(Tail(trl))

\* git log HEAD^..: the trailers of HEAD and, for a merge HEAD, of the
\* commits not merged into its first parent; nothing when HEAD has no
\* parent (--ignore-missing)
PendingTrailersOfHistory(hist, trl) == AllTrailers(trl)

PendingTrailersNone(hist, trl) == <<>>

PendingTrailers(hist, trl) ==
  IF Len(hist) >= 2 THEN trl[1].own \o trl[1].side ELSE <<>>

GetTrailerDf(hist, trl) == ExpandKvs({"name"}, PendingTrailers(hist, trl))

HasCell(row, key) ==
  \/ key \in DOMAIN row \ {"kvs"}
  \/ \E j \in 1..Len(row.kvs) : row.kvs[j].key = key

CellFirst(row, key) ==
  IF key \in DOMAIN row \ {"kvs"} THEN row[key]
  ELSE row.kvs[SetMin({j \in 1..Len(row.kvs) : row.kvs[j].key = key})].value

Cell(row, key) ==
  IF key \in DOMAIN row \ {"kvs"} THEN row[key]
  ELSE row.kvs[SetMax({j \in 1..Len(row.kvs) : row.kvs[j].key = key})].value

\* df[df[key] == value]
SelectEq(rows, key, value) ==
  SelectSeq(rows, LAMBDA r : HasCell(r, key) /\ Cell(r, key) = value)

\* what filter_df does with a selector key that is no column: SILENT
\* continues with the next key, FAIL raises ValueError, WARN prints the
\* message and goes on to df[key], which raises KeyError
OnMissingContinue(missing) == "continue"

OnMissingRaise(missing) == "ValueError"

OnMissing(missing) ==
  IF missing = "SILENT" THEN "continue"
  ELSE IF missing = "WARN" THEN "KeyError"
  ELSE "ValueError"

\* filter_df: [err, df]
RECURSIVE FilterDf(_, _, _)
FilterDf(df, selector, missing) ==
  IF selector = <<>> THEN [err |-> "none", df |-> df]
  ELSE LET key == Head(selector).key
           value == Head(selector).value
       IN IF key \notin df.cols
          THEN IF OnMissing(missing) = "continue"
               THEN FilterDf(df, Tail(selector), missing)
               ELSE [err |-> OnMissing(missing), df |-> df]
          ELSE FilterDf([df EXCEPT !.rows = SelectEq(df.rows, key, value)],
                        Tail(selector), missing)

\* Series.agg of the values of one group
Agg(vals, aggregate_by) ==
  IF aggregate_by = "min" THEN SetMin(Range(vals)) ELSE SetMax(Range(vals))

\* summarize: [err, group]; group maps each group key to the aggregate of
\* its rows, rows without the key are dropped by groupby.  The mean is
\* Sum(group) / N(group), NaN without a group; the std is the square root
\* of Var(group) / (N(group) * (N(group) - 1)), NaN below two groups.
Summarize(df, group_by, aggregate_by) ==
  IF Len(df.rows) = 0 THEN [err |-> "none", group |-> <<>>]
  ELSE IF group_by \notin df.cols THEN [err |-> "KeyError", group |-> <<>>]
  ELSE LET keyed == SelectSeq(df.rows, LAMBDA r : HasCell(r, group_by))
           keys == {Cell(keyed[i], group_by) : i \in 1..Len(keyed)}
           valsOf(k) == LET rs == SelectEq(keyed, group_by, k)
                        IN [i \in 1..Len(rs) |-> rs[i].val]
       IN [err |-> "none",
           group |-> [k \in keys |-> Agg(valsOf(k), aggregate_by)]]

N(group) == Cardinality(DOMAIN group)

RECURSIVE SumOver(_, _)
SumOver(group, ks) ==
  IF ks = {} THEN 0
  ELSE LET k == CHOOSE x \in ks : TRUE
       IN group[k] + SumOver(group, ks \ {k})

Sum(group) == SumOver(group, DOMAIN group)

SumSq(group) == SumOver([k \in DOMAIN group |-> group[k] * group[k]], DOMAIN group)

Var(group) == N(group) * SumSq(group) - Sum(group) * Sum(group)

MeanIsNaNSkipped(group) == FALSE

MeanIsNaN(group) == N(group) = 0

StdIsNaNBelowOne(group) == N(group) < 1

StdIsNaN(group) == N(group) < 2

\* head_mean - tail_mean, multiplied by N(head) * N(tail)
Dev(head, tail) == Sum(head) * N(tail) - Sum(tail) * N(head)

\* z <= sigma for z = nan_to_num(abs(head_mean - tail_mean) / tail_std):
\* 0/0 becomes 0 and x/0 the largest float, which no z exceeds; otherwise
\* both sides are squared and multiplied by the denominators
IsRegular(head, tail, sigma) ==
  IF sigma = FloatMax THEN TRUE
  ELSE IF Var(tail) = 0 THEN (Dev(head, tail) = 0 /\ 0 <= sigma)
  ELSE Dev(head, tail) * Dev(head, tail) * (N(tail) - 1)
         <= sigma * sigma * N(head) * N(head) * N(tail) * Var(tail)

AcceptedBoth(is_regular, accept_regression) == is_regular /\ accept_regression

Accepted(is_regular, accept_regression) == is_regular \/ accept_regression

\* sys.exit(not accepted)
ExitOf(accepted) == IF accepted THEN 0 ELSE 1

\* audit: the stage it ends in and the exit status of the process.  An
\* uncaught exception ends the interpreter with status 1, the return of
\* line 510 with status 0.
Audit(hist, trl, a) ==
  LET df == GetDf(hist, a.max_count)
      df_head == [df EXCEPT !.rows = SelectSeq(df.rows, LAMBDA r : r.commit = 1)]
      df_tail == [df EXCEPT !.rows = SelectSeq(df.rows, LAMBDA r : r.commit # 1)]
      selector == Append(a.selector, KeyValue("name", a.measurement))
      head_f == FilterDf(df_head, selector, "FAIL")
      tail_f == FilterDf(df_tail, selector, "WARN")
      trailers_f == FilterDf(GetTrailerDf(hist, trl), selector, "SILENT")
      accept_regression == Len(trailers_f.df.rows) > 0
      tail == Summarize(tail_f.df, a.group_by, a.aggregate_by)
      head == Summarize(head_f.df, a.group_by, a.aggregate_by)
  IN IF Len(df.rows) = 0 THEN [stage |-> "no_measurements", exit |-> 1]
     ELSE IF Len(df_head.rows) = 0 THEN [stage |-> "no_head", exit |-> 1]
     ELSE IF head_f.err # "none" THEN [stage |-> head_f.err, exit |-> 1]
     ELSE IF tail_f.err # "none" THEN [stage |-> tail_f.err, exit |-> 1]
     ELSE IF tail.err # "none" THEN [stage |-> tail.err, exit |-> 1]
     ELSE IF head.err # "none" THEN [stage |-> head.err, exit |-> 1]
     ELSE IF MeanIsNaN(head.group)
          THEN [stage |-> "no_matching_head", exit |-> 1]
     ELSE IF StdIsNaN(tail.group) THEN [stage |-> "insufficient", exit |-> 0]
     ELSE [stage |-> "decide",
           exit |-> ExitOf(Accepted(IsRegular(head.group, tail.group, a.sigma),
                                    accept_regression))]

\* ------------------------------------------------------------------ actions
AuditIdle ==
  /\ history = <<>>
  /\ trailers = <<>>
  /\ auditIn = DefaultArgs
  /\ auditOut = NoAudit

RECURSIVE TotalRecords(_)
TotalRecords(hist) ==
  IF hist = <<>> THEN 0 ELSE Len(Head(hist)) + TotalRecords(Tail(hist))

\* the trailers of a commit: those of its own message (own) and, for a
\* merge, those of the commits it merges into the first-parent history
\* (side)
NoTrailers == [own |-> <<>>, side |-> <<>>]

\* git commit: a new HEAD without a note and without trailers
Commit ==
  /\ auditOut = NoAudit
  /\ Len(history) < MaxHistory
  /\ history' = <<<<>>>> \o history
  /\ trailers' = <<NoTrailers>> \o trailers
  /\ UNCHANGED <<auditIn, auditOut>>
  /\ UNCHANGED syncVars
  /\ UNCHANGED callVars

\* add: one more line in the note of HEAD
AddRecord(rec) ==
  /\ auditOut = NoAudit
  /\ Len(history) >= 1
  /\ TotalRecords(history) < MaxRecords
  /\ history' = [history EXCEPT ![1] = Append(@, rec)]
  /\ UNCHANGED <<trailers, auditIn, auditOut>>
  /\ UNCHANGED syncVars
  /\ UNCHANGED callVars

\* mark_as_good: git commit --amend --trailer gives HEAD one more
\* accept-perf trailer, none that repeats its neighbour
MarkAsGood(own, measurement, key_value) ==
  LET t == [name |-> measurement, kvs |-> key_value]
  IN IF own # <<>> /\ own[Len(own)] = t THEN own ELSE Append(own, t)

\* the exit status of git notes list HEAD@{1}: HEAD@{1} is the commit
\* that was amended when HEAD has a reflog (the default in a work tree);
\* without one (core.logAllRefUpdates false) it cannot be resolved
NotesList(note, reflog) ==
  IF ~reflog THEN 128 ELSE IF note = <<>> THEN 1 ELSE 0

\* copy_measurements_from_prev_head: the note of the amended HEAD, a new
\* commit, given the note of the previous HEAD
CopyMeasurementsFromPrevHead(note, reflog) ==
  LET has_notes == NotesList(note, reflog) = 0
  IN IF ~has_notes THEN <<>> ELSE note

\* good: mark_as_good, then copy_measurements_from_prev_head
Good(measurement, key_value, reflog) ==
  /\ auditOut = NoAudit
  /\ Len(history) >= 1
  /\ Len(AllTrailers(trailers)) < MaxTrailers
  /\ trailers' = [trailers EXCEPT
                    ![1].own = MarkAsGood(@, measurement, key_value)]
  /\ history' = [history EXCEPT
                   ![1] = CopyMeasurementsFromPrevHead(@, reflog)]
  /\ UNCHANGED <<auditIn, auditOut>>
  /\ UNCHANGED syncVars
  /\ UNCHANGED callVars

\* git merge: a new HEAD whose second parent brings in a commit that was
\* marked as good on its branch
Merge(measurement, key_value) ==
  /\ auditOut = NoAudit
  /\ Len(history) >= 1
  /\ Len(history) < MaxHistory
  /\ Len(AllTrailers(trailers)) < MaxTrailers
  /\ history' = <<<<>>>> \o history
  /\ trailers' = <<[own |-> <<>>,
                    side |-> <<[name |-> measurement, kvs |-> key_value]>>]>>
                   \o trailers
  /\ UNCHANGED <<auditIn, auditOut>>
  /\ UNCHANGED syncVars
  /\ UNCHANGED callVars

\* audit: the process runs once and ends
RunAudit(a) ==
  /\ auditOut = NoAudit
  /\ auditIn' = a
  /\ auditOut' = Audit(history, trailers, a)
  /\ UNCHANGED <<history, trailers>>
  /\ UNCHANGED syncVars
  /\ UNCHANGED callVars

AuditNext ==
  \/ Commit
  \/ \E rec \in Records : AddRecord(rec)
  \/ \E t \in Trailers, reflog \in BOOLEAN : Good(t.name, t.kvs, reflog)
  \/ \E t \in Trailers : Merge(t.name, t.kvs)
  \/ \E a \in AuditArgs : RunAudit(a)

\* ================================================================= Part 3
NoCall == [fn |-> "none"]

CallIdle == callIn = NoCall /\ callOut = NoCall

\* the frames get_trailer_df builds from at most MaxRows trailers
RECURSIVE SeqsUpTo(_, _)
SeqsUpTo(S, n) ==
  IF n = 0 THEN {<<>>}
  ELSE LET shorter == SeqsUpTo(S, n - 1)
       IN shorter \cup {Append(q, x) : q \in shorter, x \in S}

Frames == {ExpandKvs({"name"}, rows) : rows \in SeqsUpTo(Trailers, MaxRows)}

\* the selectors audit passes to filter_df: the --selector list with the
\* name constraint appended
FullSelectors == {Append(sel, KeyValue("name", Measurement)) : sel \in KvLists}

Policies == {"SILENT", "WARN", "FAIL"}

\* ------------------------------------------------------------------- text
\* A text is a sequence of symbols: the separators " ", "," and "=", the
\* marker "--", and atoms, which stand for runs of other characters.
RECURSIVE Join(_, _)
Join(pieces, sep) ==
  IF pieces = <<>> THEN <<>>
  ELSE IF Len(pieces) = 1 THEN pieces[1]
  ELSE pieces[1] \o sep \o Join(Tail(pieces), sep)

\* str.split(sep): the pieces between the separators, empty ones included
RECURSIVE SplitOn(_, _)
SplitOn(text, sep) ==
  IF \A i \in 1..Len(text) : text[i] # sep THEN <<text>>
  ELSE LET i == SetMin({j \in 1..Len(text) : text[j] = sep})
       IN <<SubSeq(text, 1, i - 1)>>
            \o SplitOn(SubSeq(text, i + 1, Len(text)), sep)

\* str.split(): the runs of symbols between blanks
Words(text) == SelectSeq(SplitOn(text, " "), LAMBDA p : p # <<>>)

\* str.strip()
RECURSIVE Strip(_)
Strip(text) ==
  IF text = <<>> THEN text
  ELSE IF text[1] = " " THEN Strip(Tail(text))
  ELSE IF text[Len(text)] = " " THEN Strip(SubSeq(text, 1, Len(text) - 1))
  ELSE text

\* the time add() records, in seconds
TimeValue == 1700000000

\* the numbers of the model, the texts that denote them and float()
Numbers == 1..MaxVal \cup {TimeValue}

Numerals == {ToString(n) : n \in Numbers}

FloatOf(atom) == CHOOSE n \in Numbers : ToString(n) = atom

\* isnumeric: float() raises no ValueError
IsNumeric(token) == Len(token) = 1 /\ token[1] \in Numerals

\* ---------------------------------------------------------------- raw log
\* get_raw_notes: one header line "--,<hash>,<decorations>" per commit,
\* followed by the lines of its note.  git lists "grafted" first and
\* separates decorations by ", "; a ref name may contain a comma.
HeaderLine(commit, grafted, refs) ==
  <<"--", ",", commit, ",">>
    \o Join((IF grafted THEN <<<<"grafted">>>> ELSE <<>>) \o refs,
            <<",", " ">>)

\* get_formatted_kvs
FormattedKvs(key_value) ==
  Join([i \in 1..Len(key_value) |->
          <<key_value[i].key, "=", key_value[i].value>>], <<" ">>)

\* the line add() appends: measurement, time, value and tags
FormattedMeasurement(measurement, time, value, key_value) ==
  measurement \o <<" ", time, " ">> \o value \o <<" ">>
    \o FormattedKvs(key_value)

\* the value of commit before the first header line
None == <<"None">>

\* what get_df does with a malformed line after printing its message:
\* assert(False) raises AssertionError (assertions are enabled unless the
\* interpreter runs with -O, which would reach the continue)
OnMalformedContinue == "continue"

OnMalformed == "AssertionError"

\* the commit index of a record: the number of commits parsed so far,
\* the record's own commit included
NrCommitFromZero(commits_parsed) == Len(commits_parsed) - 1

NrCommit(commits_parsed) == Len(commits_parsed)

\* the loop of get_df over the lines from line i on; st holds commit,
\* commit_is_grafted, commits_parsed and records, and err once a statement
\* raised
RECURSIVE ParseFrom(_, _, _)
ParseFrom(lines, i, st) ==
  IF i > Len(lines) \/ st.err # "none" THEN st
  ELSE LET line == lines[i]
           parts == SplitOn(Strip(line), ",")
           items == Words(Strip(line))
       IN IF line # <<>> /\ line[1] = "--"
          THEN IF Len(parts) < 2
               THEN [st EXCEPT !.err = "ValueError"]
               ELSE ParseFrom(lines, i + 1,
                      [st EXCEPT
                         !.commit = parts[2],
                         !.commit_is_grafted =
                            \E k \in 3..Len(parts) : parts[k] = <<"grafted">>,
                         !.commits_parsed = Append(@, parts[2])])
          ELSE IF Strip(line) = <<>> THEN ParseFrom(lines, i + 1, st)
          ELSE IF \/ st.commit = None
                  \/ Len(items) < 3
                  \/ ~IsNumeric(items[3])
               THEN IF OnMalformed = "continue"
                    THEN ParseFrom(lines, i + 1, st)
                    ELSE [st EXCEPT !.err = OnMalformed]
          ELSE IF ~IsNumeric(items[2])
               THEN [st EXCEPT !.err = "ValueError"]
          ELSE ParseFrom(lines, i + 1,
                 [st EXCEPT !.records = Append(@,
                    [commit |-> st.commit,
                     nr_commit |-> NrCommit(st.commits_parsed),
                     name |-> items[1],
                     time |-> FloatOf(items[2][1]),
                     val |-> FloatOf(items[3][1]),
                     kvs |-> SubSeq(items, 4, Len(items))])])

\* get_df up to the data frame: what it raised (err), the exit status when
\* it ended the process, the records and the commits parsed
ParseLog(lines, max_count_commits) ==
  LET st == ParseFrom(lines, 1,
              [err |-> "none", commit |-> None, commit_is_grafted |-> FALSE,
               commits_parsed |-> <<>>, records |-> <<>>])
  IN IF st.err # "none"
     THEN [err |-> st.err, exit |-> 1, records |-> <<>>,
           commits |-> st.commits_parsed]
     ELSE IF Len(st.commits_parsed) < max_count_commits
             /\ st.commit_is_grafted
     THEN [err |-> "shallow", exit |-> 1, records |-> <<>>,
           commits |-> st.commits_parsed]
     ELSE [err |-> "none", exit |-> 0, records |-> st.records,
           commits |-> st.commits_parsed]

\* one call of filter_df
FilterCall(df, selector, missing) ==
  /\ callIn.fn = "none"
  /\ callIn' = [fn |-> "filter_df", df |-> df, selector |-> selector,
                missing |-> missing]
  /\ callOut' = [fn |-> "filter_df"] @@ FilterDf(df, selector, missing)
  /\ UNCHANGED syncVars
  /\ UNCHANGED auditVars

\* the lines of a raw log: header lines with or without the shallow
\* boundary and ref names, and the lines of notes (notes are free text: a
\* line may be short or carry a word as value)
Header(grafted, refs) ==
  [kind |-> "header", grafted |-> grafted, refs |-> refs, text |-> <<>>]

Body(text) ==
  [kind |-> "body", grafted |-> FALSE, refs |-> <<>>, text |-> text]

RefLists ==
  {<<>>, <<<<"tag: refs/tags/v1">>>>,
   <<<<"tag: refs/tags/x", ",", "grafted">>>>}

HeaderLines == {Header(g, refs) : g \in BOOLEAN, refs \in RefLists}

BodyLines ==
  {Body(FormattedMeasurement(<<Measurement>>, ToString(TimeValue),
                             <<ToString(v)>>, kv)) :
     v \in 1..MaxVal, kv \in {<<>>, <<KeyValue("os", "a")>>}}
    \cup {Body(<<>>),
          Body(<<Measurement, " ", ToString(TimeValue)>>),
          Body(<<Measurement, " ", ToString(TimeValue), " ", "fast">>)}

\* the headers of a log, oldest last
HeadersOf(log) == SelectSeq(log, LAMBDA l : l.kind = "header")

\* what git log -n max_count prints for some repository: at most max_count
\* commits, and the shallow boundary, if any, on the oldest commit printed
GitLog(log, max_count) ==
  LET hs == HeadersOf(log)
  IN /\ Len(hs) <= max_count
     /\ \A k \in 1..Len(hs) : hs[k].grafted => k = Len(hs)

\* the hash of the k-th commit from HEAD
Hash(k) == "h" \o ToString(k)

\* the text of the log: the k-th header line carries the hash of the k-th
\* commit
RawNotes(log) ==
  [i \in 1..Len(log) |->
     IF log[i].kind = "header"
     THEN HeaderLine(Hash(Len(HeadersOf(SubSeq(log, 1, i)))),
                     log[i].grafted, log[i].refs)
     ELSE log[i].text]

MaxCounts == {1, 2, DEFAULT_MAX_COUNT}

\* one call of get_df on the output of get_raw_notes
ParseCall(log, max_count) ==
  /\ callIn.fn = "none"
  /\ GitLog(log, max_count)
  /\ callIn' = [fn |-> "get_df", log |-> log, max_count |-> max_count]
  /\ callOut' = [fn |-> "get_df"]
                  @@ ParseLog(RawNotes(log), max_count)
  /\ UNCHANGED syncVars
  /\ UNCHANGED auditVars

\* -------------------------------------------------------------------- prune
\* the objects a note can be attached to
Objects == 1..MaxObjects

\* git rev-parse --is-shallow-repository
RevParseIsShallow(shallow) == IF shallow THEN "true" ELSE "false"

IsShallowRepoNever(shallow) == FALSE

IsShallowRepo(shallow) == RevParseIsShallow(shallow) = "true"

\* prune: exit status and the annotated objects left; git notes prune
\* removes the notes of objects that do not exist in the repository
Prune(shallow, annotated, existing) ==
  IF IsShallowRepo(shallow) THEN [exit |-> 1, annotated |-> annotated]
  ELSE [exit |-> 0, annotated |-> annotated \cap existing]

\* one call of prune
PruneCall(shallow, annotated, existing) ==
  /\ callIn.fn = "none"
  /\ callIn' = [fn |-> "prune", shallow |-> shallow,
                annotated |-> annotated, existing |-> existing]
  /\ callOut' = [fn |-> "prune"] @@ Prune(shallow, annotated, existing)
  /\ UNCHANGED syncVars
  /\ UNCHANGED auditVars

\* ---------------------------------------------------------------------- add
\* the arguments of the add entry point: -m takes any text (no type is
\* given to add_measurement_option), the value goes through numerictype
\* and each -kv through keyvalue
MeasurementArgs ==
  {<<Measurement>>, <<"a", " ", ToString(1)>>, <<"a", " ", "b">>, <<>>,
   <<"--">>}

ValueArgs == {<<ToString(v)>> : v \in 1..MaxVal} \cup {<<"fast">>}

KvArgs ==
  {<<"os", "=", v>> : v \in OsValues} \cup {<<"os">>, <<"os", " ", "=", "a">>}

\* numerictype raises ArgumentTypeError unless the text is numeric, and
\* returns the text as it is
NumericTypeRaises(val) == ~IsNumeric(val)

\* keyvalue raises ArgumentTypeError unless the text is one word with
\* one "="
KeyValueRaises(val) ==
  Len(Words(val)) # 1 \/ Len(SplitOn(Strip(val), "=")) # 2

\* keyvalue: the two sides of the "="; keys and values of the model are
\* single atoms
KeyValueType(val) ==
  LET split == SplitOn(Strip(val), "=")
  IN KeyValue(split[1][1], split[2][1])

\* argparse stops with status 2 when a type function raises
ArgsAccepted(value_arg, kv_args) ==
  /\ ~NumericTypeRaises(value_arg)
  /\ \A i \in 1..Len(kv_args) : ~KeyValueRaises(kv_args[i])

\* the cell pandas leaves empty
NaN == "NaN"

\* expand_kvs on one record: each token split at "=", the last value per
\* key; a token without "=" has no value
TagMap(kvs) ==
  LET pair(i) == SplitOn(kvs[i], "=")
      key(i) == IF pair(i)[1] = <<>> THEN "" ELSE pair(i)[1][1]
      value(i) == IF Len(pair(i)) < 2 \/ pair(i)[2] = <<>> THEN NaN
                  ELSE pair(i)[2][1]
  IN [k \in {key(i) : i \in 1..Len(kvs)} |->
        value(SetMax({i \in 1..Len(kvs) : key(i) = k}))]

\* add on HEAD followed by get_df: the note of HEAD is the line add
\* formats (git notes append drops blanks at the end of a line, as
\* get_df's strip does), read back from the log of a one-commit repository
AddThenGetDf(measurement, value, key_value) ==
  ParseLog(<<HeaderLine(Hash(1), FALSE, <<>>),
             FormattedMeasurement(measurement, ToString(TimeValue), value,
                                  key_value)>>,
           DEFAULT_MAX_COUNT)

\* one call of the add entry point, and get_df after it
AddCall(measurement, value_arg, kv_args) ==
  /\ callIn.fn = "none"
  /\ callIn' = [fn |-> "add", measurement |-> measurement,
                value |-> value_arg, kv_args |-> kv_args]
  /\ callOut' =
       [fn |-> "add"] @@
         (IF ArgsAccepted(value_arg, kv_args)
          THEN AddThenGetDf(measurement, value_arg,
                            [i \in 1..Len(kv_args) |-> KeyValueType(kv_args[i])])
          ELSE [err |-> "ArgumentTypeError", exit |-> 2, records |-> <<>>,
                commits |-> <<>>])
  /\ UNCHANGED syncVars
  /\ UNCHANGED auditVars

\* --------------------------------------------------------------------- good
\* one call of good on a HEAD with the given note and trailers
GoodCall(note, own, measurement, key_value, reflog) ==
  /\ callIn.fn = "none"
  /\ callIn' = [fn |-> "good", note |-> note, own |-> own,
                measurement |-> measurement, key_value |-> key_value,
                reflog |-> reflog]
  /\ callOut' = [fn |-> "good", exit |-> 0,
                 own |-> MarkAsGood(own, measurement, key_value),
                 note |-> CopyMeasurementsFromPrevHead(note, reflog)]
  /\ UNCHANGED syncVars
  /\ UNCHANGED auditVars

\* --------------------------------------------------------------- dispersion
\* the values of the evaluation: the base value, a value next to it and an
\* outlier
BaseValue == 100

SigmaThreshold == 4

DataValues == {BaseValue, BaseValue + 1, 5 * BaseValue}

\* a sample, outliers first (generate_test_data shuffles: the order is
\* arbitrary)
Sample(base, near, outliers) ==
  [i \in 1..outliers |-> 5 * BaseValue]
    \o [i \in 1..near |-> BaseValue + 1]
    \o [i \in 1..base |-> BaseValue]

Samples ==
  {Sample(base, near, outliers) :
     base \in 0..MaxBase, near \in 0..1, outliers \in 0..MaxOutliers}

\* sorted(data)
RECURSIVE Insert(_, _)
Insert(sorted, x) ==
  IF sorted = <<>> THEN <<x>>
  ELSE IF x <= Head(sorted) THEN <<x>> \o sorted
  ELSE <<Head(sorted)>> \o Insert(Tail(sorted), x)

RECURSIVE Sorted(_)
Sorted(data) ==
  IF data = <<>> THEN <<>> ELSE Insert(Sorted(Tail(data)), Head(data))

\* statistics.median of a non-empty list, times two: the middle value, or
\* the mean of the two middle values
Median2(data) ==
  LET sorted == Sorted(data)
      n == Len(data)
  IN IF n % 2 = 1 THEN 2 * sorted[(n + 1) \div 2]
     ELSE sorted[n \div 2] + sorted[n \div 2 + 1]

\* a number num / den, or no number (nan)
Number(num, den) == [nan |-> FALSE, num |-> num, den |-> den]

NoNumber == [nan |-> TRUE, num |-> 0, den |-> 1]

\* calculate_mad: 0.0 for no data, else the median of the absolute
\* deviations from the median (in quarters, the data being doubled twice)
CalculateMad(data) ==
  IF data = <<>> THEN Number(0, 1)
  ELSE LET abs_deviations2 ==
             [i \in 1..Len(data) |->
                IF 2 * data[i] >= Median2(data)
                THEN 2 * data[i] - Median2(data)
                ELSE Median2(data) - 2 * data[i]]
       IN Number(Median2(abs_deviations2), 4)

\* Series.std of summarize and statistics.stdev, squared: the sum of the
\* squared deviations from the mean over n - 1; pandas gives NaN below
\* two values
SampleVariance(data) ==
  IF StdIsNaN(data) THEN NoNumber
  ELSE Number(Var(data), Len(data) * (Len(data) - 1))

\* a score: infinite, or num / den
Score(num, den) == [err |-> "none", inf |-> FALSE, num |-> num, den |-> den]

Inf == [err |-> "none", inf |-> TRUE, num |-> 0, den |-> 1]

Raised(err) == [err |-> err, inf |-> FALSE, num |-> 0, den |-> 1]

\* calculate_z_score_stddev, squared
ZScoreStddev(head_value, tail_data) ==
  LET n == Len(tail_data)
      dev == n * head_value - Sum(tail_data)
  IN IF n < 2
     THEN IF n = 0 THEN Raised("IndexError")
          ELSE IF head_value # tail_data[1] THEN Inf ELSE Score(0, 1)
     ELSE IF Var(tail_data) = 0
     THEN IF dev # 0 THEN Inf ELSE Score(0, 1)
     ELSE Score(dev * dev * (n - 1), n * Var(tail_data))

\* calculate_z_score_mad
ZScoreMadZeroIsStable(head_value, tail_data) ==
  IF tail_data = <<>> THEN Inf
  ELSE IF CalculateMad(tail_data).num = 0 THEN Score(0, 1)
  ELSE Score(IF 2 * head_value >= Median2(tail_data)
             THEN 2 * (2 * head_value - Median2(tail_data))
             ELSE 2 * (Median2(tail_data) - 2 * head_value),
             CalculateMad(tail_data).num)

ZScoreMad(head_value, tail_data) ==
  IF tail_data = <<>> THEN Inf
  ELSE LET tail_mad == CalculateMad(tail_data)
           dev2 == IF 2 * head_value >= Median2(tail_data)
                   THEN 2 * head_value - Median2(tail_data)
                   ELSE Median2(tail_data) - 2 * head_value
       IN IF tail_mad.num = 0
          THEN IF dev2 # 0 THEN Inf ELSE Score(0, 1)
          ELSE Score(2 * dev2, tail_mad.num)

\* run_test_scenario: z_score > sigma_threshold for the squared stddev
\* score and for the MAD score
StddevDetected(score, sigma_threshold) ==
  score.inf \/ score.num > sigma_threshold * sigma_threshold * score.den

MadDetected(score, sigma_threshold) ==
  score.inf \/ score.num > sigma_threshold * score.den

\* one scenario: the scores of a candidate against a baseline and what
\* each method detects
ScenarioCall(head_value, tail_data) ==
  /\ callIn.fn = "none"
  /\ callIn' = [fn |-> "run_test_scenario", head_value |-> head_value,
                tail_data |-> tail_data]
  /\ LET stddev_z_score == ZScoreStddev(head_value, tail_data)
         mad_z_score == ZScoreMad(head_value, tail_data)
     IN callOut' =
          [fn |-> "run_test_scenario",
           stddev_z_score |-> stddev_z_score,
           mad_z_score |-> mad_z_score,
           stddev_detected |-> StddevDetected(stddev_z_score, SigmaThreshold),
           mad_detected |-> MadDetected(mad_z_score, SigmaThreshold)]
  /\ UNCHANGED syncVars
  /\ UNCHANGED auditVars

\* the two dispersion estimators on one value set
DispersionCall(data) ==
  /\ callIn.fn = "none"
  /\ callIn' = [fn |-> "dispersion", data |-> data]
  /\ callOut' = [fn |-> "dispersion", mad |-> CalculateMad(data),
                 variance |-> SampleVariance(data)]
  /\ UNCHANGED syncVars
  /\ UNCHANGED auditVars

\* ----------------------------------------------------------------- trailers
\* the tokens after the name in an accept-perf trailer: the tags good()
\* writes and, a commit message being free text, a word without "=" and a
\* token with two "="
TagTokens ==
  {<<"os", "=", v>> : v \in OsValues}
    \cup {<<"fast">>, <<"x", "=", "y", "=", "z">>}

\* the lines git log prints for the pending trailers
TrailerLines ==
  {Join(<<<<name>>>> \o tokens, <<" ">>) :
     name \in {Measurement, OtherMeasurement},
     tokens \in SeqsUpTo(TagTokens, MaxTokens)}

\* get_trailer_df up to the frame: name and tokens of every line that is
\* not blank
TrailerRecords(lines) ==
  LET kept == SelectSeq(lines, LAMBDA line : Strip(line) # <<>>)
  IN [i \in 1..Len(kept) |->
        [name |-> Words(kept[i])[1][1],
         kvs |-> SubSeq(Words(kept[i]), 2, Len(Words(kept[i])))]]

\* all tokens of the records, in order (Series.explode)
RECURSIVE Explode(_)
Explode(records) ==
  IF records = <<>> THEN <<>>
  ELSE Head(records).kvs \o Explode(Tail(records))

\* the number of columns of str.split('=', expand=True): the largest
\* number of pieces of a token
SplitWidth(tokens) ==
  IF tokens = <<>> THEN 0
  ELSE SetMax({Len(SplitOn(tokens[i], "=")) : i \in 1..Len(tokens)})

\* the key=value pairs of one record that have a value; a token without
\* "=" has none and is dropped by the pivot
PairsOf(kvs) ==
  LET valued == SelectSeq(kvs, LAMBDA token : Len(SplitOn(token, "=")) = 2)
      atom(text) == IF text = <<>> THEN "" ELSE text[1]
  IN [i \in 1..Len(valued) |->
        KeyValue(atom(SplitOn(valued[i], "=")[1]),
                 atom(SplitOn(valued[i], "=")[2]))]

\* expand_kvs on records of tokens: the pivot is made only when the split
\* has exactly two columns; otherwise the kvs column stays as it is
ExpandTokens(cols, records) ==
  IF records = <<>> THEN [cols |-> {}, rows |-> <<>>]
  ELSE IF SplitWidth(Explode(records)) = 2
  THEN LET rows == [i \in 1..Len(records) |->
                      [name |-> records[i].name,
                       kvs |-> PairsOf(records[i].kvs)]]
       IN [cols |-> cols \cup Keys(rows), rows |-> rows]
  ELSE [cols |-> cols \cup {"kvs"},
        rows |-> [i \in 1..Len(records) |->
                    [name |-> records[i].name, kvs |-> <<>>]]]

\* get_trailer_df on the lines of the pending trailers
TrailerFrame(lines) == ExpandTokens({"name"}, TrailerRecords(lines))

\* audit, lines 484-491: the trailers left by the selector with the name
\* constraint appended, and accept_regression
FilteredTrailers(lines, selector) ==
  FilterDf(TrailerFrame(lines), selector, "SILENT").df.rows

AcceptRegression(lines, selector) == Len(FilteredTrailers(lines, selector)) > 0

\* the override part of audit, run on the pending trailers and run again
\* after one more trailer was written to the pending commits
OverrideCall(lines, extra, selector) ==
  /\ callIn.fn = "none"
  /\ callIn' = [fn |-> "override", lines |-> lines, extra |-> extra,
                selector |-> selector]
  /\ callOut' = [fn |-> "override",
                 df |-> TrailerFrame(lines \o <<extra>>),
                 accept_before |-> AcceptRegression(lines, selector),
                 accept_regression |->
                    AcceptRegression(lines \o <<extra>>, selector)]
  /\ UNCHANGED syncVars
  /\ UNCHANGED auditVars

CallNext ==
  \/ \E shallow \in BOOLEAN, annotated \in SUBSET Objects,
         existing \in SUBSET Objects :
       PruneCall(shallow, annotated, existing)
  \/ \E df \in Frames, selector \in FullSelectors, missing \in Policies :
       FilterCall(df, selector, missing)
  \/ \E log \in SeqsUpTo(HeaderLines \cup BodyLines, MaxLogLines),
         max_count \in MaxCounts :
       ParseCall(log, max_count)
  \/ \E measurement \in MeasurementArgs, value_arg \in ValueArgs,
         kv_args \in SeqsUpTo(KvArgs, MaxRows) :
       AddCall(measurement, value_arg, kv_args)
  \/ \E note \in SeqsUpTo(Records, MaxRows), own \in SeqsUpTo(Trailers, 1),
         t \in Trailers, reflog \in BOOLEAN :
       GoodCall(note, own, t.name, t.kvs, reflog)
  \/ \E head_value \in DataValues, tail_data \in Samples :
       ScenarioCall(head_value, tail_data)
  \/ \E data \in Samples : DispersionCall(data)
  \/ \E lines \in SeqsUpTo(TrailerLines, MaxPending), extra \in TrailerLines,
         selector \in FullSelectors :
       OverrideCall(lines, extra, selector)

vars == <<syncVars, auditVars, callVars>>

Init == SyncInit /\ AuditIdle /\ CallIdle

Next == SyncNext

Spec == Init /\ [][Next]_vars

AuditInit == SyncIdle /\ denied = {} /\ AuditIdle /\ CallIdle

AuditSpec == AuditInit /\ [][AuditNext]_vars

CallInit == SyncIdle /\ denied = {} /\ AuditIdle /\ CallIdle

CallSpec == CallInit /\ [][CallNext]_vars

\* ================================================================ claims
\* the lines appended to commit c by any writer
AllAppended(c) ==
  {l \in Lines : \E w \in Writers : \E i \in 1..Len(adds[w]) :
                    adds[w][i] = <<c, l>>}

\* the record set of commit c in the log a ref points to
RecordSet(ref, c) == Range(NotesOf(store, ref)[c])

\* the writer's push ended with an accepted push attempt (budget not used up)
Published(w) ==
  pc[w] = "done" /\ outcome[w] = "returned" /\ lastStep[w] = "accepted"

\* C1: when every writer's push has returned without exhausting MAX_PUSHES
\* and every writer has pulled afterwards, the remote log and every local
\* log hold exactly the union of all appended records.
C1_Convergence ==
  (\A w \in Writers : Published(w) /\ synced[w]) =>
    \A c \in Commits :
      /\ RecordSet(remote, c) = AllAppended(c)
      /\ \A w \in Writers : RecordSet(localRef[w], c) = AllAppended(c)

\* C1 witness: all writers published and pulled, two writers appended, and
\* one of them was rejected and had to pull inside its push.
C1_Witness ==
  /\ \A w \in Writers : Published(w) /\ synced[w]
  /\ \E v, w \in Writers : v # w /\ adds[v] # <<>> /\ adds[w] # <<>>
  /\ \E w \in Writers : attempts[w] >= 2 /\ adds[w] # <<>>

\* two processes v, w appended one record each to commit c, nobody else
\* appended, and the pushes of both published
TwoAppends(v, w, c) ==
  /\ v # w
  /\ Len(adds[v]) = 1 /\ adds[v][1][1] = c
  /\ Len(adds[w]) = 1 /\ adds[w][1][1] = c
  /\ \A u \in Writers \ {v, w} : adds[u] = <<>>
  /\ Published(v) /\ Published(w)

\* C2 as stated: after both syncs the reconciled log of the commit has
\* two records, the sum of both appends.
C2_CountIsSum ==
  \A v, w \in Writers, c \in Commits :
    TwoAppends(v, w, c) => Len(NotesOf(store, remote)[c]) = 2

\* C2 amended: after both syncs the reconciled log of the commit holds
\* the set union of the two appended lines, each once: two records when
\* the lines differ, one when they are the same text.
C2_CountIsUnion ==
  \A v, w \in Writers, c \in Commits :
    TwoAppends(v, w, c) =>
      LET got == NotesOf(store, remote)[c]
          want == {adds[v][1][2], adds[w][1][2]}
      IN Range(got) = want /\ Len(got) = Cardinality(want)

\* C2 witnesses: the two lines differ and both are in the remote log; the
\* two lines are equal and the remote log has one.
C2_Witness ==
  \E v, w \in Writers, c \in Commits :
    /\ TwoAppends(v, w, c)
    /\ adds[v][1][2] # adds[w][1][2]
    /\ Len(NotesOf(store, remote)[c]) = 2

\* the steps of push() after its first line
PushStep(w) ==
  \/ PushGiveUp(w)
  \/ PushAccepted(w)
  \/ PushRejected(w)
  \/ PullInPush(w)
  \/ PullInPushFails(w)

\* what is left of a push: two steps per remaining loop round
PushVariant(w) ==
  IF pc[w] = "loop" THEN 2 * (MAX_PUSHES - counter[w]) + 2
  ELSE IF pc[w] = "pull" THEN 2 * (MAX_PUSHES - counter[w]) + 1
  ELSE 0

\* C3: push terminates whatever the remote answers, after at most
\* MAX_PUSHES push attempts and at most MAX_PUSHES pulls: the counts are
\* bounded, a running push can always take a step, and every step of push
\* decreases a non-negative measure.
C3_PushBounded ==
  /\ [](\A w \in Writers :
          /\ attempts[w] <= MAX_PUSHES
          /\ pulls[w] <= MAX_PUSHES
          /\ PushVariant(w) >= 0
          /\ pc[w] \in {"loop", "pull"} => ENABLED PushStep(w))
  /\ [][\A w \in Writers :
          PushStep(w) => PushVariant(w)' < PushVariant(w)]_vars

\* C3 witness: a push ended after MAX_PUSHES rejected attempts and
\* MAX_PUSHES pulls.
C3_Witness ==
  \E w \in Writers :
    pc[w] = "done" /\ attempts[w] = MAX_PUSHES /\ pulls[w] = MAX_PUSHES

\* C4: when all MAX_PUSHES push attempts of a push were rejected, the
\* caller of push gets an error, not a normal return.
C4_FailureSignalled ==
  \A w \in Writers :
    (pc[w] = "done" /\ attempts[w] = MAX_PUSHES /\ lastStep[w] # "accepted")
      => outcome[w] = "raised"

\* C5: a pull is never the last step of a push that returns: every pull
\* of push is followed by another push attempt.
C5_PullThenRetry ==
  \A w \in Writers :
    (pc[w] = "done" /\ outcome[w] = "returned") => lastStep[w] # "pull"

\* the log of w after merging ref r into it, and after merging r again
Merged(st, w, l, r) == Reconcile(st, w, l, r)

LogOf(res) == NotesOf(res.store, res.ref)

\* the merge of r into w's log is a three-way merge that calls the
\* cat_sort_uniq strategy for commit c
Conflict(w, r, c) ==
  LET l == localRef[w]
      b == MergeBase(store, l, r)
      base == NotesOf(store, b)[c]
      mine == NotesOf(store, l)[c]
      theirs == NotesOf(store, r)[c]
  IN /\ l # NoRef /\ b # l /\ b # r
     /\ theirs # base /\ mine # theirs /\ mine # <<>> /\ mine # base

\* C6: union-merge is idempotent: merging a log into the local log twice
\* gives the same log as merging it once, merging a log with itself or
\* with a log of equal content leaves it unchanged, and where the merge
\* calls the strategy, the strategy applied again to its own result and the
\* same remote lines changes nothing.
C6_Idempotent ==
  \A w \in Writers, r \in DOMAIN store :
    LET l == localRef[w]
        once == Merged(store, w, l, r)
        twice == Merged(once.store, w, once.ref, r)
    IN /\ LogOf(twice) = LogOf(once)
       /\ twice.ref = once.ref
       /\ l # NoRef => Merged(store, w, l, l).ref = l
       /\ (l # NoRef /\ NotesOf(store, r) = NotesOf(store, l))
             => LogOf(once) = NotesOf(store, l)
       /\ \A c \in Commits :
            LET mine == NotesOf(store, l)[c]
                theirs == NotesOf(store, r)[c]
            IN Conflict(w, r, c) =>
                 /\ LogOf(once)[c] = CatSortUniq(mine, theirs)
                 /\ CatSortUniq(CatSortUniq(mine, theirs), theirs)
                      = CatSortUniq(mine, theirs)

\* C6 witness: a merge that needs the strategy (both sides changed the
\* annotation of a commit differently) has been carried out by a pull.
C6_Witness ==
  \E w \in Writers, r \in DOMAIN store, c \in Commits :
    /\ Conflict(w, r, c)
    /\ \E v \in Writers : pulls[v] > 0 /\ localRef[v] \notin {NoRef, remote}
                          /\ Len(NotesOf(store, localRef[v])[c]) >= 2

\* C7: union-merge is commutative: merging A then B into a log gives the
\* same record set, for every commit, as merging B then A.
C7_Commutative ==
  \A w \in Writers, a \in DOMAIN store, b \in DOMAIN store :
    LET l == localRef[w]
        ma == Merged(store, w, l, a)
        mab == Merged(ma.store, w, ma.ref, b)
        mb == Merged(store, w, l, b)
        mba == Merged(mb.store, w, mb.ref, a)
    IN \A c \in Commits : Range(LogOf(mab)[c]) = Range(LogOf(mba)[c])

\* C7 witness: a local log and two logs A and B that differ from it and
\* from each other in the lines of one commit; merging A then B makes merge
\* commits with the strategy, and the result holds the lines of all three.
C7_Witness ==
  \E w \in Writers, a \in DOMAIN store, b \in DOMAIN store, c \in Commits :
    LET l == localRef[w]
        ma == Merged(store, w, l, a)
        mab == Merged(ma.store, w, ma.ref, b)
    IN /\ Conflict(w, a, c)
       /\ Conflict(w, b, c)
       /\ NotesOf(store, a)[c] # NotesOf(store, b)[c]
       /\ ma.ref \notin DOMAIN store
       /\ mab.ref \notin DOMAIN ma.store
       /\ Range(LogOf(mab)[c]) =
            RecordSet(l, c) \cup RecordSet(a, c) \cup RecordSet(b, c)
       /\ Cardinality(Range(LogOf(mab)[c])) >= 2

\* ------------------------------------------------------------ audit claims
\* an audit ran
Ran == auditOut # NoAudit

\* record r carries the token kv
HasTag(r, kv) == \E j \in 1..Len(r.kvs) : r.kvs[j] = kv

\* record r is of the measurement and carries every token of the selector
RecordMatches(r, a) ==
  /\ r.name = a.measurement
  /\ \A i \in 1..Len(a.selector) : HasTag(r, a.selector[i])

\* the matching records of HEAD, and those of the older commits
HeadRows(a) ==
  SelectSeq(RowsFrom(history, 1),
            LAMBDA r : r.commit = 1 /\ RecordMatches(r, a))

TailRows(a) ==
  SelectSeq(RowsFrom(history, 1),
            LAMBDA r : r.commit # 1 /\ RecordMatches(r, a))

\* one scalar per group of the given records
GroupsOf(rows, a) ==
  Summarize([cols |-> {a.group_by}, rows |-> rows],
            a.group_by, a.aggregate_by).group

Baseline(a) == GroupsOf(TailRows(a), a)

Candidate(a) == GroupsOf(HeadRows(a), a)

\* a matching HEAD record carries the group-by key
KeyedHead(a) ==
  \E i \in 1..Len(HeadRows(a)) : HasCell(HeadRows(a)[i], a.group_by)

\* a pending trailer is of the measurement and carries every token of the
\* selector whose key occurs among the pending trailers (an absent key is
\* skipped)
OverrideMatches(a) ==
  LET pending == PendingTrailers(history, trailers)
  IN \E i \in 1..Len(pending) :
       /\ pending[i].name = a.measurement
       /\ \A j \in 1..Len(a.selector) :
            a.selector[j].key \in Keys(pending)
              => HasTag(pending[i], a.selector[j])

C9_DefaultAccept ==
  (Ran /\ Len(HeadRows(auditIn)) >= 1 /\ N(Baseline(auditIn)) < 2) =>
    (auditOut.stage = "insufficient" /\ auditOut.exit = 0)

\* C9 amended: with fewer than two TAIL groups the audit ends in the
\* default accept with exit status zero when a matching HEAD record carries
\* the group-by key, whatever the HEAD value and the threshold; when HEAD
\* has matching records and none carries the group-by key, the audit exits
\* with status 1.
C9_DefaultAcceptKeyed ==
  /\ (Ran /\ KeyedHead(auditIn) /\ N(Baseline(auditIn)) < 2) =>
       (auditOut.stage = "insufficient" /\ auditOut.exit = 0)
  /\ (Ran /\ Len(HeadRows(auditIn)) >= 1 /\ ~KeyedHead(auditIn)) =>
       (auditOut.stage \in {"KeyError", "no_matching_head"}
          /\ auditOut.exit = 1)

\* C9 witness: a single TAIL group whose value differs from HEAD's, audited
\* with threshold 0, is accepted by default
C9_Witness ==
  /\ auditOut.stage = "insufficient"
  /\ auditOut.exit = 0
  /\ auditIn.sigma = 0
  /\ N(Baseline(auditIn)) = 1
  /\ Sum(Candidate(auditIn)) # Sum(Baseline(auditIn)) * N(Candidate(auditIn))

\* C10: an audit whose baseline has fewer than two samples does not end
\* with the exit status of an accepted audit.
C10_NeverPass ==
  (Ran /\ KeyedHead(auditIn) /\ N(Baseline(auditIn)) < 2) =>
    auditOut.exit # ExitOf(TRUE)

\* C11: at a decision against a baseline of at least two groups with
\* spread 0 and without a matching trailer, the audit exits with zero
\* exactly when the HEAD scalar equals the baseline center, for every
\* finite threshold >= 0.
C11_StableBaseline ==
  (/\ auditOut.stage = "decide"
   /\ Var(Baseline(auditIn)) = 0
   /\ ~OverrideMatches(auditIn)) =>
    (auditOut.exit = 0 <=> Dev(Candidate(auditIn), Baseline(auditIn)) = 0)

\* the stages in which audit ends with a fatal condition
FatalStages ==
  {"no_measurements", "no_head", "ValueError", "KeyError", "no_matching_head"}

\* C12: an audit of a HEAD without a record matching the measurement and
\* the selector ends in a fatal stage with a non-zero exit status, also
\* with fewer than two TAIL groups and with a matching trailer pending.
C12_HeadRequired ==
  (Ran /\ Len(HeadRows(auditIn)) = 0) =>
    (auditOut.stage \in FatalStages /\ auditOut.exit # 0)

\* C12 witness: HEAD has records but none matches, TAIL has fewer than two
\* groups, a matching trailer is pending, and the audit exits non-zero
C12_Witness ==
  /\ Ran
  /\ Len(history) >= 2
  /\ Len(history[1]) >= 1
  /\ Len(HeadRows(auditIn)) = 0
  /\ N(Baseline(auditIn)) < 2
  /\ OverrideMatches(auditIn)
  /\ auditOut.exit # 0

\* the records of all commits in the window
AllRows == RowsFrom(history, 1)

\* selector key k occurs as a tag of some record of HEAD
KeyOnHead(k) ==
  \E i \in 1..Len(AllRows) :
    AllRows[i].commit = 1 /\ HasCell(AllRows[i], k)

\* a key of the selector occurs on no record of HEAD
SelectorKeyAbsentOnHead(a) ==
  \E j \in 1..Len(a.selector) : ~KeyOnHead(a.selector[j].key)

\* C13: an audit with a selector key that no HEAD record carries ends in a
\* fatal stage with a non-zero exit status, never in a decision or in the
\* default accept; when HEAD has records and no record of the window
\* carries the key, the fatal stage is the ValueError of filter_df.
C13_AbsentKeyOnHeadFatal ==
  /\ (Ran /\ SelectorKeyAbsentOnHead(auditIn)) =>
       (auditOut.stage \in FatalStages /\ auditOut.exit # 0)
  /\ (Ran /\ Len(history) >= 1 /\ Len(history[1]) >= 1
          /\ \E j \in 1..Len(auditIn.selector) :
                auditIn.selector[j].key \notin Keys(AllRows)) =>
       auditOut.stage = "ValueError"

\* C13 witness: the key is on no HEAD record although HEAD has a record
\* of the measurement, TAIL has two matching groups and a matching trailer
\* is pending; the audit exits non-zero
C13_Witness ==
  /\ Ran
  /\ SelectorKeyAbsentOnHead(auditIn)
  /\ \E i \in 1..Len(AllRows) :
       AllRows[i].commit = 1 /\ AllRows[i].name = auditIn.measurement
  /\ N(Baseline(auditIn)) >= 2
  /\ OverrideMatches(auditIn)
  /\ auditOut.exit # 0

\* ------------------------------------------------------- function claims
\* a key of the selector is no column of the frame
SelectorKeyAbsent(df, selector) ==
  \E j \in 1..Len(selector) : selector[j].key \notin df.cols

\* the rows that satisfy every constraint of the selector whose key is a
\* column of the frame
RemainingApplied(df, selector) ==
  SelectSeq(df.rows,
            LAMBDA r : \A j \in 1..Len(selector) :
                         selector[j].key \in df.cols =>
                           /\ HasCell(r, selector[j].key)
                           /\ Cell(r, selector[j].key) = selector[j].value)

\* C14: filter_df with the WARN policy and a selector key that is no
\* column raises no error and returns the rows that satisfy the remaining
\* constraints.
C14_WarnProceeds ==
  (/\ callIn.fn = "filter_df"
   /\ callIn.missing = "WARN"
   /\ SelectorKeyAbsent(callIn.df, callIn.selector)) =>
    /\ callOut.err = "none"
    /\ callOut.df.rows = RemainingApplied(callIn.df, callIn.selector)

\* C15: filter_df with the SILENT policy raises no error and returns the
\* rows that satisfy the constraints whose key is a column; of a frame
\* without rows it returns no row.
C15_SilentSkips ==
  (callIn.fn = "filter_df" /\ callIn.missing = "SILENT") =>
    /\ callOut.err = "none"
    /\ callOut.df.rows = RemainingApplied(callIn.df, callIn.selector)
    /\ callIn.df.rows = <<>> => callOut.df.rows = <<>>

\* C15 witness: the selector key os is no column of the trailers, and the
\* name constraint still removes a trailer and keeps another
C15_Witness ==
  /\ callIn.fn = "filter_df"
  /\ callIn.missing = "SILENT"
  /\ "name" \in callIn.df.cols
  /\ SelectorKeyAbsent(callIn.df, callIn.selector)
  /\ callOut.err = "none"
  /\ Len(callOut.df.rows) = 1
  /\ Len(callIn.df.rows) = 2

\* the commits a call of get_df was given, and whether the oldest of them
\* is a shallow boundary
Returned == HeadersOf(callIn.log)

OldestGrafted == Returned # <<>> /\ Returned[Len(Returned)].grafted

\* C16: get_df ends with the shallow-boundary error exactly when fewer
\* commits than max_count were returned and the oldest one is a shallow
\* boundary, unless a line of the log failed to parse.
C16_ShallowExactly ==
  (callIn.fn = "get_df" /\ callOut.err \in {"none", "shallow"}) =>
    (callOut.err = "shallow" <=>
       (Len(Returned) < callIn.max_count /\ OldestGrafted))

\* line i of the log is a non-blank line of a note
NoteLine(log, i) == log[i].kind = "body" /\ Words(log[i].text) # <<>>

\* a note line before any header line, with fewer than three tokens, or
\* with a third token that is no number
MalformedAt(log, i) ==
  /\ NoteLine(log, i)
  /\ \/ \A k \in 1..(i - 1) : log[k].kind # "header"
     \/ Len(Words(log[i].text)) < 3
     \/ Words(log[i].text)[3] \notin {<<n>> : n \in Numerals}

\* C17: get_df on a log with a malformed line raises the error of the
\* failed assertion, ends the process with a non-zero status and gives no
\* records.
C17_MalformedFails ==
  (callIn.fn = "get_df"
     /\ \E i \in 1..Len(callIn.log) : MalformedAt(callIn.log, i)) =>
    /\ callOut.err = "AssertionError"
    /\ callOut.exit # 0
    /\ callOut.records = <<>>

\* C17 witness: a well-formed record followed by a line whose value is a
\* word; no record is returned
C17_Witness ==
  /\ callIn.fn = "get_df"
  /\ Len(callIn.log) = 3
  /\ callIn.log[1].kind = "header"
  /\ NoteLine(callIn.log, 2) /\ ~MalformedAt(callIn.log, 2)
  /\ NoteLine(callIn.log, 3) /\ Len(Words(callIn.log[3].text)) >= 3
  /\ MalformedAt(callIn.log, 3)
  /\ callOut.err = "AssertionError"
  /\ callOut.records = <<>>

\* C18: prune on a shallow repository ends with a non-zero status and
\* leaves every annotation; annotations are removed only by a prune on a
\* repository that is not shallow.
C18_PruneRefusedWhenShallow ==
  callIn.fn = "prune" =>
    /\ callIn.shallow =>
         (callOut.exit # 0 /\ callOut.annotated = callIn.annotated)
    /\ callOut.annotated # callIn.annotated => ~callIn.shallow
    /\ callOut.annotated \subseteq callIn.annotated

\* C18 witness: a shallow repository with a note on an object it does not
\* have; prune is refused and the note stays
C18_Witness ==
  /\ callIn.fn = "prune"
  /\ callIn.shallow
  /\ callIn.annotated \ callIn.existing # {}
  /\ callOut.exit # 0
  /\ callOut.annotated = callIn.annotated

\* ---------------------------------------------------------------- add
\* the annotation of commit c in the repository of writer w
Annotation(w, c) == NotesOf(store, localRef[w])[c]

\* the step is an add of writer w: its list of added lines grows
IsAdd(w) == adds'[w] # adds[w]

\* C19: an add step of writer w on commit c puts its line at the end of
\* the annotation of c, which keeps the lines it had in their order and
\* gains one line; the annotations of the other commits, the other
\* repositories and the remote log stay as they are; and at all times
\* the annotation of a commit holds every line the writer added to it.
C19_AddAppendsOneLine ==
  /\ [][\A w \in Writers : \A c \in Commits : \A l \in Lines :
          (IsAdd(w) /\ adds'[w] = Append(adds[w], <<c, l>>)) =>
               /\ Len(Annotation(w, c)') = Len(Annotation(w, c)) + 1
               /\ SubSeq(Annotation(w, c)', 1, Len(Annotation(w, c)))
                    = Annotation(w, c)
               /\ Annotation(w, c)'[Len(Annotation(w, c)')] = l
               /\ \A d \in Commits \ {c} : Annotation(w, d)' = Annotation(w, d)
               /\ \A v \in Writers \ {w}, d \in Commits :
                    Annotation(v, d)' = Annotation(v, d)
               /\ NotesOf(store, remote)' = NotesOf(store, remote)]_vars
  /\ [](\A w \in Writers : \A i \in 1..Len(adds[w]) :
          adds[w][i][2] \in Range(Annotation(w, adds[w][i][1])))

\* C19 witness: a second add on a commit that already had a line, with
\* a line on another commit too
C19_Witness ==
  \E w \in Writers : \E c \in Commits, d \in Commits :
    /\ c # d
    /\ Len(adds[w]) >= 3
    /\ Len(Annotation(w, c)) >= 2
    /\ Len(Annotation(w, d)) >= 1
    /\ adds[w][Len(adds[w])][1] = c

\* ------------------------------------------------------------- round trip
\* the record add was asked to write: the name, the time of the call,
\* the value as a number and the tags given, the last value per key
Encoded ==
  [name |-> callIn.measurement,
   time |-> TimeValue,
   val |-> FloatOf(callIn.value[1]),
   tags |-> TagMap([i \in 1..Len(callIn.kv_args) |-> callIn.kv_args[i]])]

\* the record get_df read back
Decoded(r) ==
  [name |-> r.name, time |-> r.time, val |-> r.val, tags |-> TagMap(r.kvs)]

AddAccepted == callOut.fn = "add" /\ callOut.err # "ArgumentTypeError"

\* C20: whenever add accepts its arguments, get_df reads back exactly one
\* record from the line written, and its name, time, value and tags are
\* those that were given to add.
C20_RoundTrip ==
  AddAccepted =>
    /\ callOut.err = "none"
    /\ Len(callOut.records) = 1
    /\ Decoded(callOut.records[1]) = Encoded

\* ----------------------------------------------------------- commit index
\* get_df returned a frame
Parsed == callOut.fn = "get_df" /\ callOut.err = "none"

\* the position of the commit of record r in the commits returned, HEAD
\* being the first
PositionOf(r) ==
  CHOOSE k \in 1..Len(callOut.commits) : callOut.commits[k] = r.commit

\* C21 (as stated): the commit index of a record is 0 for HEAD and grows
\* by one per older commit.
C21_IndexFromZero ==
  Parsed =>
    \A i \in 1..Len(callOut.records) :
      /\ \E k \in 1..Len(callOut.commits) :
            callOut.commits[k] = callOut.records[i].commit
      /\ callOut.records[i].nr_commit = PositionOf(callOut.records[i]) - 1

\* C21 (amended): the commit index of a record is 1 for HEAD, the first
\* commit header returned, and grows by one per older commit; all
\* records of one commit carry the same index.
C21_IndexFromOne ==
  Parsed =>
    /\ \A i \in 1..Len(callOut.records) :
         /\ \E k \in 1..Len(callOut.commits) :
               callOut.commits[k] = callOut.records[i].commit
         /\ callOut.records[i].nr_commit = PositionOf(callOut.records[i])
    /\ \A i, j \in 1..Len(callOut.records) :
         callOut.records[i].commit = callOut.records[j].commit
           => callOut.records[i].nr_commit = callOut.records[j].nr_commit

\* C21 witness: a frame with a record of the commit before HEAD
C21_Witness ==
  /\ Parsed
  /\ Len(callOut.commits) = 2
  /\ \E i \in 1..Len(callOut.records) :
       callOut.records[i].commit = callOut.commits[2]

\* ------------------------------------------------------- pending trailers
\* the trailers with those of the commits older than HEAD taken away
HeadOnly(trl) == [k \in 1..Len(trl) |-> IF k = 1 THEN trl[k] ELSE NoTrailers]

\* the trailers of the commits of the first-parent history older than HEAD
OlderTrailers == AllTrailers(Tail(trailers))

\* C22: the outcome of audit is the one it has when no commit older than
\* HEAD carries a trailer, and an audit that accepts a score beyond the
\* threshold found a trailer of the measurement on HEAD or, for a merge
\* HEAD, on a commit not merged into its first parent.
C22_OnlyPendingTrailers ==
  Ran =>
    /\ auditOut = Audit(history, HeadOnly(trailers), auditIn)
    /\ (/\ auditOut.stage = "decide"
        /\ auditOut.exit = 0
        /\ ~IsRegular(Candidate(auditIn), Baseline(auditIn), auditIn.sigma))
         => \E i \in 1..Len(trailers[1].own \o trailers[1].side) :
              (trailers[1].own \o trailers[1].side)[i].name
                = auditIn.measurement

\* C22 witness: an audit rejects a score beyond the threshold although a
\* commit older than HEAD carries a trailer of the measurement that
\* repeats the selector
C22_Witness ==
  /\ auditOut.stage = "decide"
  /\ auditOut.exit = 1
  /\ \E i \in 1..Len(OlderTrailers) :
       /\ OlderTrailers[i].name = auditIn.measurement
       /\ OlderTrailers[i].kvs = auditIn.selector

\* ------------------------------------------------------------------- good
\* C23: after good, the note of the new HEAD is the note the previous
\* HEAD had, an empty one included, and good ends with status zero.
C23_GoodKeepsNote ==
  callOut.fn = "good" => (callOut.exit = 0 /\ callOut.note = callIn.note)

\* good(a.measurement, a.selector) was run on HEAD: its trailer is in the
\* message of HEAD
MarkedGood(a) ==
  /\ trailers # <<>>
  /\ \E i \in 1..Len(trailers[1].own) :
       trailers[1].own[i] = [name |-> a.measurement, kvs |-> a.selector]

\* C24: an audit of a measurement and selector that HEAD was marked good
\* for ends with exit status zero unless it stops at a fatal condition,
\* whatever the score is.
C24_GoodThenAccepted ==
  (Ran /\ MarkedGood(auditIn) /\ auditOut.stage \notin FatalStages)
    => auditOut.exit = 0

\* C24 witness: HEAD was marked good for a measurement with a tag, and
\* the audit with that tag as selector accepts a score beyond the
\* threshold
C24_Witness ==
  /\ auditOut.stage = "decide"
  /\ auditIn.selector # <<>>
  /\ MarkedGood(auditIn)
  /\ ~IsRegular(Candidate(auditIn), Baseline(auditIn), auditIn.sigma)
  /\ auditOut.exit = 0

\* ------------------------------------------------------------- dispersion
\* the baseline of nine base values and one outlier, and the candidate
\* next to the base value
ScenarioB ==
  /\ callOut.fn = "run_test_scenario"
  /\ callIn.head_value = BaseValue + 1
  /\ Len(callIn.tail_data) = 10
  /\ Cardinality({i \in 1..10 : callIn.tail_data[i] = BaseValue}) = 9
  /\ Cardinality({i \in 1..10 : callIn.tail_data[i] = 5 * BaseValue}) = 1

\* C25: on a baseline of nine values of 100 and one of 500 with candidate
\* 101, the stddev score is finite and below the threshold 4 (not
\* detected) and the MAD score is above it (detected).
C25_EstimatorsDiverge ==
  ScenarioB =>
    /\ callOut.stddev_z_score.err = "none"
    /\ ~callOut.stddev_z_score.inf
    /\ callOut.stddev_z_score.num
         < SigmaThreshold * SigmaThreshold * callOut.stddev_z_score.den
    /\ ~callOut.stddev_detected
    /\ callOut.mad_z_score.err = "none"
    /\ callOut.mad_detected

\* C25 witness: the scenario was run
C25_Witness == ScenarioB /\ callOut.mad_detected /\ ~callOut.stddev_detected

\* the k-th smallest of the values: fewer than k are below it and at
\* least k are not above it
Ranked(vals, k) ==
  CHOOSE x \in Range(vals) :
    /\ Cardinality({i \in 1..Len(vals) : vals[i] < x}) < k
    /\ Cardinality({i \in 1..Len(vals) : vals[i] <= x}) >= k

\* twice the median: the sum of the two middle values (which are one
\* value when the size is odd)
TwiceMedian(vals) ==
  Ranked(vals, (Len(vals) + 1) \div 2) + Ranked(vals, Len(vals) \div 2 + 1)

\* the absolute deviations of the doubled values from twice the median
Deviations2(vals) ==
  [i \in 1..Len(vals) |->
     IF 2 * vals[i] >= TwiceMedian(vals)
     THEN 2 * vals[i] - TwiceMedian(vals)
     ELSE TwiceMedian(vals) - 2 * vals[i]]

\* the sum of the squared deviations from the mean, times the squared size
SquaredDeviations(vals) ==
  SumOver([i \in 1..Len(vals) |->
             (Len(vals) * vals[i] - Sum(vals))
               * (Len(vals) * vals[i] - Sum(vals))],
          1..Len(vals))

\* C26: for a value set of size two or more the MAD estimator returns the
\* median of the absolute deviations from the median and the stddev
\* estimator the square root of the sum of squared deviations from the
\* mean over n - 1; for a value set of size 0 or 1 both return no number.
C26_Estimators ==
  callOut.fn = "dispersion" =>
    IF Len(callIn.data) >= 2
    THEN /\ ~callOut.mad.nan
         /\ callOut.mad.num * 4
              = TwiceMedian(Deviations2(callIn.data)) * callOut.mad.den
         /\ ~callOut.variance.nan
         /\ callOut.variance.den
              = Len(callIn.data) * (Len(callIn.data) - 1)
         /\ callOut.variance.num * Len(callIn.data)
              = SquaredDeviations(callIn.data)
    ELSE callOut.mad.nan /\ callOut.variance.nan

\* ------------------------------------------------------------------- pull
\* writer w can run a pull that completes: push() sent it to pull() or it
\* runs the pull subcommand, and origin has the notes ref to fetch
CanPull(w) == pc[w] \in {"pull", "done"} /\ remote # NoRef

\* the log of writer w after reconcile() with the remote log as FETCH_HEAD
PulledNotes(w) ==
  LET res == Reconcile(store, w, localRef[w], remote)
  IN NotesOf(res.store, res.ref)

\* the step is a pull of writer w
IsPull(w) ==
  \/ pulls'[w] # pulls[w]
  \/ fetchHead'[w] # fetchHead[w]
  \/ (localRef'[w] # localRef[w] /\ adds'[w] = adds[w])

\* C27: a pull that completes leaves, for every commit, the union of the
\* local records before the pull and the remote records fetched, so the
\* local log contains every remote record again; and a pull step changes
\* neither the remote log nor the log of another writer.
C27_PullIsUnion ==
  /\ [](\A w \in Writers :
          CanPull(w) =>
            \A c \in Commits :
              Range(PulledNotes(w)[c])
                = Range(Annotation(w, c)) \cup Range(NotesOf(store, remote)[c]))
  /\ [][\A w \in Writers :
          IsPull(w) =>
            /\ remote' = remote
            /\ NotesOf(store, remote)' = NotesOf(store, remote)
            /\ \A v \in Writers \ {w} : localRef'[v] = localRef[v]]_vars

\* C27 witness: after its pull a writer that had diverged from the remote
\* holds the remote records and records of its own that the remote lacks
C27_Witness ==
  \E w \in Writers : \E c \in Commits :
    /\ lastStep[w] = "pull"
    /\ remote # NoRef
    /\ localRef[w] \notin {NoRef, remote}
    /\ fetchHead[w] = remote
    /\ localRef[w] \notin AncOf(store, remote)
    /\ \E l \in Range(NotesOf(store, remote)[c]) :
         \A i \in 1..Len(adds[w]) : adds[w][i] # <<c, l>>
    /\ Range(NotesOf(store, remote)[c]) \subseteq Range(Annotation(w, c))
    /\ Range(NotesOf(store, remote)[c]) # Range(Annotation(w, c))

\* --------------------------------------------------------------- tag maps
\* the lines of the frame of an override call, and their tokens
FrameLines == callIn.lines \o <<callIn.extra>>

TokensOf(line) == SubSeq(Words(line), 2, Len(Words(line)))

\* token is a tag key=value
IsTag(token) == Len(token) = 3 /\ token[2] = "="

\* the tokens of the line are tags and key occurs among them
Carries(line, key) ==
  \E j \in 1..Len(TokensOf(line)) :
    IsTag(TokensOf(line)[j]) /\ TokensOf(line)[j][1] = key

\* the value of the last tag of the line with the key
LastValue(line, key) ==
  LET tokens == TokensOf(line)
      last == SetMax({j \in 1..Len(tokens) :
                        IsTag(tokens[j]) /\ tokens[j][1] = key})
  IN tokens[last][3]

\* the frame has a tag map: the kvs column was replaced by tag columns
Decoded28 == callOut.fn = "override" /\ "kvs" \notin callOut.df.cols

\* C28: in a decoded frame every key a line carries, once or several
\* times, is a column whose cell in the row of the line is the value of
\* the key's last occurrence in that line, which is also what the line
\* decodes to on its own, whatever the other lines carry.
C28_LastOccurrenceWins ==
  Decoded28 =>
    \A i \in 1..Len(FrameLines) :
      \A key \in {"os", "fast", "x"} :
        Carries(FrameLines[i], key) =>
          /\ key \in callOut.df.cols
          /\ HasCell(callOut.df.rows[i], key)
          /\ Cell(callOut.df.rows[i], key) = LastValue(FrameLines[i], key)
          /\ Cell(TrailerFrame(<<FrameLines[i]>>).rows[1], key)
               = LastValue(FrameLines[i], key)

\* C28 witness: a decoded frame with a line that carries one key twice
\* with different values, and another line with a tag of that key
C28_Witness ==
  /\ Decoded28
  /\ Len(FrameLines) = 2
  /\ \E i, j \in 1..2 :
       /\ i # j
       /\ TokensOf(FrameLines[i]) = <<<<"os", "=", "a">>, <<"os", "=", "b">>>>
       /\ Cell(callOut.df.rows[i], "os") = "b"
       /\ Carries(FrameLines[j], "os")
       /\ Cell(callOut.df.rows[j], "os") = "a"

\* ---------------------------------------------------------------- override
\* the tags of the selector of the call, without the name constraint
SelectorTags ==
  SelectSeq(callIn.selector, LAMBDA kv : kv.key # "name")

\* the line is a trailer of the audited measurement and has the
\* selector's value for every selector key it carries
Agrees(line) ==
  /\ Words(line)[1] = <<Measurement>>
  /\ \A j \in 1..Len(SelectorTags) :
       Carries(line, SelectorTags[j].key)
         => LastValue(line, SelectorTags[j].key) = SelectorTags[j].value

\* C29: the override flag is true only if some pending trailer is of the
\* audited measurement and agrees with the selector on every selector key
\* it carries, whatever the tokens of the pending trailers are.
C29_OverrideNeedsAgreement ==
  (callOut.fn = "override" /\ callOut.accept_regression)
    => \E i \in 1..Len(FrameLines) : Agrees(FrameLines[i])

\* C30: an override found among the pending trailers is still found
\* after one more trailer was added to the pending commits.
C30_OverrideMonotonic ==
  (callOut.fn = "override" /\ callOut.accept_before)
    => callOut.accept_regression

====
